---------------------------- MODULE Spec2Model ----------------------------
(***************************************************************************)
(* Model of exec/NeighborList/FieldIO.cpp: the two export operations       *)
(*   WritePlotFile(pc, geom, nstep)   and   WriteParticlesVTK(pc, nstep).  *)
(*                                                                         *)
(* A particle container is a sequence of levels (index lev+1 holds level   *)
(* lev), a level is the sequence of its tiles in the iteration order of    *)
(* the level's map, a tile is the sequence of its particles.  A text file  *)
(* is the sequence of its lines (without the terminating newline).         *)
(***************************************************************************)
EXTENDS Integers, Sequences, FiniteSets, TLC

VARIABLES
    pc,        \* the particle container handed to the export calls
    files,     \* working directory: file name -> [exists, lines]
    bundles,   \* working directory: plotfile directory name -> bundle
    printed,   \* what the most recent call sent to amrex::Print()
    calls,     \* the library writers the most recent call invoked, in order
    last,      \* the most recent call: operation, arguments, local buffers
    ctl,       \* per processing unit: position inside WriteParticlesVTK
    upc,       \* per processing unit: its local particle container
    ubuf,      \* per processing unit: the buffer of its stream
    uprinted   \* per processing unit: what it sent to amrex::Print()

vars == <<pc, files, bundles, printed, calls, last, ctl, upc, ubuf, uprinted>>

(***************************************************************************)
(* Bounds of the model.                                                    *)
(***************************************************************************)
MaxLevel == 1        \* finest level of a container is in 0..MaxLevel
MaxTiles == 2        \* tiles per level
MaxTotal == 2        \* particles per container
MaxGeomLevels == 2   \* length of the geometry sequence
NumUnits == 2        \* processing units in the multi-unit specification

Steps == {0, 7}      \* step indices the driver passes

(***************************************************************************)
(* Text formatting: operator<< on integers and doubles, amrex::Concatenate.*)
(***************************************************************************)
Digits == <<"0", "1", "2", "3", "4", "5", "6", "7", "8", "9">>

RECURSIVE IntToStr(_)
IntToStr(n) ==
    IF n < 10 THEN Digits[n + 1]
    ELSE IntToStr(n \div 10) \o Digits[(n % 10) + 1]

RECURSIVE NumDigits(_)
NumDigits(n) == IF n < 10 THEN 1 ELSE 1 + NumDigits(n \div 10)

RECURSIVE Pow10(_)
Pow10(k) == IF k = 0 THEN 1 ELSE 10 * Pow10(k - 1)

RECURSIVE Zeros(_)
Zeros(k) == IF k <= 0 THEN "" ELSE "0" \o Zeros(k - 1)

\* std::setw(w) << std::setfill('0') << n, for n >= 0
ZeroPad(n, w) == Zeros(w - NumDigits(n)) \o IntToStr(n)

\* amrex::Concatenate(root, num, mindigits)
Concatenate(root, num, mindigits) == root \o ZeroPad(num, mindigits)

RECURSIVE StripZeros(_)
StripZeros(m) == IF m % 10 = 0 /\ m >= 10 THEN StripZeros(m \div 10) ELSE m

\* std::ostream << double with the default precision 6 and no float field
\* (printf %g), for a whole-number value v.
FormatG6(v) ==
    LET a    == IF v < 0 THEN 0 - v ELSE v
        sign == IF v < 0 THEN "-" ELSE ""
        X    == NumDigits(a) - 1
    IN  IF X < 6 THEN sign \o IntToStr(a)
        ELSE
          LET scale == Pow10(X - 5)
              q     == a \div scale
              r     == a % scale
              m0    == IF 2 * r > scale \/ (2 * r = scale /\ q % 2 = 1)
                       THEN q + 1 ELSE q
              m     == IF m0 = 1000000 THEN 100000 ELSE m0
              E     == IF m0 = 1000000 THEN X + 1 ELSE X
              s     == StripZeros(m)
              k     == NumDigits(s)
              lead  == s \div Pow10(k - 1)
              rest  == s % Pow10(k - 1)
          IN  sign \o IntToStr(lead)
                \o (IF k > 1 THEN "." \o ZeroPad(rest, k - 1) ELSE "")
                \o "e+" \o ZeroPad(E, 2)

(***************************************************************************)
(* Particle containers.                                                    *)
(***************************************************************************)
\* PIdx: positions of the real attributes in rdata (1-based here)
PIdx == [vx |-> 1, vy |-> 2, vz |-> 3, ax |-> 4, ay |-> 5, az |-> 6, ncomps |-> 6]

\* The particle stored as number i of tile number t of level lev.  Its nine
\* values differ from each other and from those of every other particle of
\* the container; some are negative, some need the exponent notation.
MkParticle(lev, t, i) ==
    LET k == 100 * lev + 10 * t + i
    IN  [pos   |-> <<k, 0 - k, 100000 * k>>,
         rdata |-> <<123457 * k, 1000 + k, 999990 + k,
                     k * k + 2000, 0 - (3000 + k), 1234505 + 10 * k>>]

\* every value a particle of the bounds can hold, formatted once
RealValues ==
    UNION {{MkParticle(lev, t, i).pos[j] : j \in 1..3}
             \cup {MkParticle(lev, t, i).rdata[j] : j \in 1..PIdx.ncomps} :
           lev \in 0..MaxLevel, t \in 1..(MaxTiles + NumUnits), i \in 1..MaxTotal}
FormatTable == [v \in RealValues |-> FormatG6(v)]

\* ofs << x for an amrex::Real x
FmtReal(v) == FormatTable[v]

SeqsUpTo(S, n) == UNION {[1..k -> S] : k \in 0..n}

RECURSIVE SumSeq(_)
SumSeq(s) == IF s = <<>> THEN 0 ELSE Head(s) + SumSeq(Tail(s))

\* a shape gives the particle count of every tile of every level
LevelShapes == SeqsUpTo(0..MaxTotal, MaxTiles)
PopShapes ==
    {s \in UNION {[1..n -> {x \in LevelShapes : SumSeq(x) <= MaxTotal}] :
                     n \in 1..(MaxLevel + 1)} :
        SumSeq([l \in 1..Len(s) |-> SumSeq(s[l])]) <= MaxTotal}

PopOfShape(s) ==
    [l \in 1..Len(s) |->
        [t \in 1..Len(s[l]) |->
            [i \in 1..s[l][t] |-> MkParticle(l - 1, t, i)]]]

Populations == {PopOfShape(s) : s \in PopShapes}

\* containers of one level with at most one tile
DriverPopulations == {p \in Populations : Len(p) = 1 /\ Len(p[1]) <= 1}

\* pc.finestLevel()
finestLevel(p) == Len(p) - 1
\* pc.GetParticles(lev): the tiles of level lev in map iteration order
GetParticles(p, lev) == p[lev + 1]
\* ptile.GetArrayOfStructs().numParticles()
numParticles(ptile) == Len(ptile)

(***************************************************************************)
(* WriteParticlesVTK, step 1: count the particles of all levels.           *)
(***************************************************************************)
RECURSIVE CountTiles(_, _)
CountTiles(plev, n) ==
    IF n = 0 THEN 0
    ELSE CountTiles(plev, n - 1) + numParticles(plev[n])

RECURSIVE CountLevels(_, _)
CountLevels(p, lev) ==
    IF lev < 0 THEN 0
    ELSE CountLevels(p, lev - 1)
           + CountTiles(GetParticles(p, lev), Len(GetParticles(p, lev)))

\* the loop bound lev < finest_level instead of lev <= finest_level
CountParticles_SkipFinest(p) == CountLevels(p, finestLevel(p) - 1)

CountParticles(p) == CountLevels(p, finestLevel(p))

\* the export is never skipped
NothingToWrite_Never(np_total) == FALSE

\* the test that skips the export
NothingToWrite(np_total) == np_total = 0

(***************************************************************************)
(* WriteParticlesVTK, step 2: collect the particles into host vectors.     *)
(***************************************************************************)
\* the tiles of a level visited last to first
RECURSIVE CollectTiles_Reversed(_, _)
CollectTiles_Reversed(plev, n) ==
    IF n = 0 THEN <<>>
    ELSE plev[n] \o CollectTiles_Reversed(plev, n - 1)

RECURSIVE CollectTiles(_, _)
CollectTiles(plev, n) ==
    IF n = 0 THEN <<>>
    ELSE CollectTiles(plev, n - 1) \o plev[n]

RECURSIVE CollectLevels(_, _)
CollectLevels(p, lev) ==
    IF lev < 0 THEN <<>>
    ELSE CollectLevels(p, lev - 1)
           \o CollectTiles(GetParticles(p, lev), Len(GetParticles(p, lev)))

\* the particles in the order the push_back loop visits them
VisitOrder(p) == CollectLevels(p, finestLevel(p))

\* the nine host vectors after the loop
Collect(p) ==
    LET v == VisitOrder(p)
    IN  [xs  |-> [i \in 1..Len(v) |-> v[i].pos[1]],
         ys  |-> [i \in 1..Len(v) |-> v[i].pos[2]],
         zs  |-> [i \in 1..Len(v) |-> v[i].pos[3]],
         vxs |-> [i \in 1..Len(v) |-> v[i].rdata[PIdx.vx]],
         vys |-> [i \in 1..Len(v) |-> v[i].rdata[PIdx.vy]],
         vzs |-> [i \in 1..Len(v) |-> v[i].rdata[PIdx.vz]],
         axs |-> [i \in 1..Len(v) |-> v[i].rdata[PIdx.ax]],
         ays |-> [i \in 1..Len(v) |-> v[i].rdata[PIdx.ay]],
         azs |-> [i \in 1..Len(v) |-> v[i].rdata[PIdx.az]]]

NoVectors ==
    [xs |-> <<>>, ys |-> <<>>, zs |-> <<>>, vxs |-> <<>>, vys |-> <<>>,
     vzs |-> <<>>, axs |-> <<>>, ays |-> <<>>, azs |-> <<>>]

(***************************************************************************)
(* WriteParticlesVTK, steps 3-5: the file.                                 *)
(***************************************************************************)
VtkFileName(nstep) == Concatenate("particles_", nstep, 5) \o ".vtk"

VtkNames == {VtkFileName(s) : s \in Steps}

NoFile == [exists |-> FALSE, lines |-> <<>>]
\* a file of that name left in the directory by something else
StaleFile == [exists |-> TRUE, lines |-> <<"stale">>]

\* the stream opened in append mode
OpenedFile_Append(old) == [exists |-> TRUE, lines |-> old.lines]

\* std::ofstream ofs(vtkfile): the default open mode truncates the file
OpenedFile(old) == [exists |-> TRUE, lines |-> <<>>]

VtkHeader ==
    <<"# vtk DataFile Version 3.0", "MD particles", "ASCII", "DATASET POLYDATA">>

PointsSection(np_total, v) ==
    <<"POINTS " \o IntToStr(np_total) \o " double">>
      \o [i \in 1..np_total |->
            FmtReal(v.xs[i]) \o " " \o FmtReal(v.ys[i]) \o " " \o FmtReal(v.zs[i])]
      \o <<"">>

VerticesSection(np_total) ==
    <<"VERTICES " \o IntToStr(np_total) \o " " \o IntToStr(2 * np_total)>>
      \o [i \in 1..np_total |-> "1 " \o IntToStr(i - 1)]
      \o <<"">>

write_scalar(name, data, np_total) ==
    <<"SCALARS " \o name \o " double 1", "LOOKUP_TABLE default">>
      \o [i \in 1..np_total |-> FmtReal(data[i])]
      \o <<"">>

PointDataSection(np_total, v) ==
    <<"POINT_DATA " \o IntToStr(np_total)>>
      \o write_scalar("vx", v.vxs, np_total)
      \o write_scalar("vy", v.vys, np_total)
      \o write_scalar("vz", v.vzs, np_total)
      \o write_scalar("ax", v.axs, np_total)
      \o write_scalar("ay", v.ays, np_total)
      \o write_scalar("az", v.azs, np_total)

\* everything the call streams into ofs between the open and the close
VtkLines(np_total, v) ==
    VtkHeader \o PointsSection(np_total, v) \o VerticesSection(np_total)
      \o PointDataSection(np_total, v)

NoParticlesNotice == "WriteParticlesVTK: no particles to write."
CouldNotOpenNotice(vtkfile) == "WriteParticlesVTK: could not open file " \o vtkfile
WroteNotice(np_total, vtkfile) ==
    "WriteParticlesVTK: wrote " \o IntToStr(np_total) \o " particles to " \o vtkfile

\* the failed open falls through to the rest of the function
OpenFailureOutput_NoReturn(np_total, vtkfile) ==
    <<CouldNotOpenNotice(vtkfile), WroteNotice(np_total, vtkfile)>>

\* what the call prints when the stream is not good
OpenFailureOutput(np_total, vtkfile) == <<CouldNotOpenNotice(vtkfile)>>

NoCall == [op |-> "none", nstep |-> 0, num_levels |-> 0, np_total |-> 0,
           opened |-> FALSE, after |-> "nothing", vtkTwice |-> FALSE,
           vectors |-> NoVectors]

\* The record of a returned call.  after tells what the call came after:
\* "repeat" the same operation with the same arguments and outcome,
\* "failure" a WriteParticlesVTK whose file could not be opened,
\* "nothing" no call at all, "other" any other call.  vtkTwice tells of a
\* WritePlotFile call that the WriteParticlesVTK calls last made before it
\* were a call that wrote its file and the repeat of that call.
Returned(op, nstep, num_levels, np_total, opened, v) ==
    [op |-> op, nstep |-> nstep, num_levels |-> num_levels,
     np_total |-> np_total, opened |-> opened,
     after |-> IF last.op = "none" THEN "nothing"
               ELSE IF last.op = op /\ last.nstep = nstep
                         /\ last.num_levels = num_levels /\ last.opened = opened
                    THEN "repeat"
               ELSE IF last.op = "WriteParticlesVTK" /\ ~last.opened
                         /\ last.np_total > 0
                    THEN "failure"
               ELSE "other",
     vtkTwice |-> /\ op = "WritePlotFile"
                  /\ \/ last.op = "WritePlotFile" /\ last.vtkTwice
                     \/ /\ last.op = "WriteParticlesVTK" /\ last.opened
                        /\ last.after = "repeat",
     vectors |-> v]

\* One call WriteParticlesVTK(pc, nstep); openOk is whether the stream is
\* good after construction.
WriteParticlesVTK(nstep, openOk) ==
    LET np_total == CountParticles(pc)
        vtkfile  == VtkFileName(nstep)
    IN  /\ IF NothingToWrite(np_total)
           THEN /\ printed' = <<NoParticlesNotice>>
                /\ files' = files
                /\ last' = Returned("WriteParticlesVTK", nstep, 0, np_total,
                                    FALSE, NoVectors)
           ELSE LET v == Collect(pc)
                IN  IF ~openOk
                    THEN /\ printed' = OpenFailureOutput(np_total, vtkfile)
                         /\ files' = files
                         /\ last' = Returned("WriteParticlesVTK", nstep, 0,
                                             np_total, FALSE, v)
                    ELSE /\ printed' = <<WroteNotice(np_total, vtkfile)>>
                         /\ files' =
                              [files EXCEPT ![vtkfile] =
                                 [exists |-> TRUE,
                                  lines  |-> OpenedFile(files[vtkfile]).lines
                                               \o VtkLines(np_total, v)]]
                         /\ last' = Returned("WriteParticlesVTK", nstep, 0,
                                             np_total, TRUE, v)
        /\ calls' = <<>>
        /\ UNCHANGED <<pc, bundles, ctl, upc, ubuf, uprinted>>

ExportVTK == \E nstep \in Steps, openOk \in BOOLEAN : WriteParticlesVTK(nstep, openOk)

(***************************************************************************)
(* WritePlotFile.                                                          *)
(***************************************************************************)
RECURSIVE Pow2(_)
Pow2(k) == IF k = 0 THEN 1 ELSE 2 * Pow2(k - 1)

\* a geometry: the number of cells of its domain box along each axis
Geometry(lev) == [domain |-> <<4 * Pow2(lev), 4 * Pow2(lev), 4 * Pow2(lev)>>]
\* the geometry sequences the driver passes: 0..MaxGeomLevels levels
GeomSeqs == {[l \in 1..n |-> Geometry(l - 1)] : n \in 0..MaxGeomLevels}

\* the early return taken one level too soon
NothingToPlot_OffByOne(num_levels) == num_levels <= 1

\* the early return of WritePlotFile
NothingToPlot(num_levels) == num_levels <= 0

\* the early return announcing itself
EarlyReturnOutput_Logged == <<"WritePlotFile: no levels to write.">>

\* what WritePlotFile prints before its early return: nothing
EarlyReturnOutput == <<>>

varnames == <<"dummy">>

level_steps(num_levels, nstep) == [lev \in 1..num_levels |-> nstep]

\* MultiFab(ba, dm, ncomp, 0) on the single box of the level's domain,
\* setVal(0.0)
MakeMultiFab(g, ncomp) ==
    [ba |-> <<g.domain>>, ncomp |-> ncomp, ngrow |-> 0, val |-> 0]

output_cc(geom, num_levels) ==
    [lev \in 1..num_levels |-> MakeMultiFab(geom[lev], Len(varnames))]

Max(a, b) == IF a >= b THEN a ELSE b

\* one ratio per level instead of one per pair of levels
refRatio_PerLevel(num_levels) == [lev \in 1..num_levels |-> <<2, 2, 2>>]

refRatio(num_levels) == [lev \in 1..Max(num_levels - 1, 0) |-> <<2, 2, 2>>]

particle_varnames ==
    [i \in 1..PIdx.ncomps |->
        CASE i = PIdx.vx -> "vx" [] i = PIdx.vy -> "vy" [] i = PIdx.vz -> "vz"
          [] i = PIdx.ax -> "ax" [] i = PIdx.ay -> "ay" [] i = PIdx.az -> "az"]

PltFileName(nstep) == Concatenate("plt", nstep, 5)
PltNames == {PltFileName(s) : s \in Steps}

NoBundle == [exists |-> FALSE, grid |-> <<>>, subdirs |-> <<>>]

\* the call of amrex::WriteMultiLevelPlotfile
PlotfileCall(pltfile, num_levels, geom, nstep) ==
    [fn |-> "WriteMultiLevelPlotfile", dir |-> pltfile,
     args |-> [nlevels |-> num_levels, mf |-> output_cc(geom, num_levels),
               varnames |-> varnames, geom |-> geom, time |-> 0,
               level_steps |-> level_steps(num_levels, nstep),
               ref_ratio |-> refRatio(num_levels)]]

\* the call of pc.Checkpoint
CheckpointCall(pltfile, p) ==
    [fn |-> "Checkpoint", dir |-> pltfile,
     args |-> [name |-> "particle0", is_checkpoint |-> TRUE,
               real_comp_names |-> particle_varnames, particles |-> p]]

\* the particle checkpoint written before the plotfile
PlotCalls_Reversed(pltfile, num_levels, geom, nstep, p) ==
    <<CheckpointCall(pltfile, p), PlotfileCall(pltfile, num_levels, geom, nstep)>>

\* the library calls of one WritePlotFile, in program order
PlotCalls(pltfile, num_levels, geom, nstep, p) ==
    <<PlotfileCall(pltfile, num_levels, geom, nstep), CheckpointCall(pltfile, p)>>

\* What a library writer does to the directory it is given.  The writers
\* are library code that the source only calls; their effect is taken from
\* the description of their contract (sections 4.2 and 4.3 of the
\* specification): WriteMultiLevelPlotfile "creates or overwrites the output
\* bundle directory tree (header plus one sub-directory per level)", and
\* Checkpoint writes the particles "as a new sub-tree inside the bundle".
CallEffect(b, c) ==
    IF c.fn = "WriteMultiLevelPlotfile"
    THEN [exists |-> TRUE, grid |-> <<c.args>>, subdirs |-> <<>>]
    ELSE [exists |-> TRUE, grid |-> b.grid, subdirs |-> Append(b.subdirs, c.args)]

RECURSIVE RunCalls(_, _)
RunCalls(bs, cs) ==
    IF cs = <<>> THEN bs
    ELSE RunCalls([bs EXCEPT ![Head(cs).dir] = CallEffect(bs[Head(cs).dir], Head(cs))],
                  Tail(cs))

\* One call WritePlotFile(pc, geom, nstep).
WritePlotFile(geom, nstep) ==
    LET num_levels == Len(geom)
        pltfile    == PltFileName(nstep)
    IN  /\ IF NothingToPlot(num_levels)
           THEN /\ calls' = <<>>
                /\ bundles' = bundles
                /\ printed' = EarlyReturnOutput
           ELSE /\ calls' = PlotCalls(pltfile, num_levels, geom, nstep, pc)
                /\ bundles' = RunCalls(bundles, calls')
                /\ printed' = <<>>
        /\ last' = Returned("WritePlotFile", nstep, num_levels, 0, FALSE, NoVectors)
        /\ UNCHANGED <<pc, files, ctl, upc, ubuf, uprinted>>

ExportPlot == \E geom \in GeomSeqs, nstep \in Steps : WritePlotFile(geom, nstep)

(***************************************************************************)
(* WriteParticlesVTK on several processing units at once.  Every unit runs *)
(* the same call on its own container, in the same working directory.  A   *)
(* unit's stream keeps what is streamed into it in its buffer; the text of *)
(* a call is shorter than the buffer, so it reaches the file in one write, *)
(* issued by close(), at the start of the file (the offset of a descriptor *)
(* that has written nothing yet).  The write replaces bytes, not lines: a  *)
(* file that holds more bytes than the write keeps its bytes beyond it.    *)
(***************************************************************************)
Units == 1..NumUnits

\* amrex::Print() writes on the I/O processor only; it is unit 1
IOProcessor == 1
PrintOn(u, msg) == IF u = IOProcessor THEN <<msg>> ELSE <<>>

\* unit u owns tile number u of level 0, holding n particles
UnitPop(u, n) == << << [i \in 1..n |-> MkParticle(0, MaxTiles + u, i)] >> >>

\* the put area of the stream's buffer, in bytes
FileBufSize == 8191

NoStream == [np_total |-> 0, vectors |-> NoVectors, buffered |-> <<>>,
             closed |-> FALSE]

\* the number of bytes of the lines, each ended by its newline
ByteCount(lines) == SumSeq([i \in 1..Len(lines) |-> Len(lines[i]) + 1])

\* the lines of a file holding the lines old that lie beyond its first n
\* bytes; a line the n-th byte falls into is cut
RECURSIVE BeyondBytes(_, _)
BeyondBytes(old, n) ==
    IF old = <<>> \/ n = 0 THEN old
    ELSE IF Len(Head(old)) + 1 <= n
         THEN BeyondBytes(Tail(old), n - Len(Head(old)) - 1)
    ELSE <<SubSeq(Head(old), n + 1, Len(Head(old)))>> \o Tail(old)

\* write(2) of the lines data at byte offset 0 of a file holding lines old
WriteAtStart(old, data) == data \o BeyondBytes(old, ByteCount(data))

\* lines 95-147: count, early return, collect
UAggregate(u) ==
    /\ ctl[u] = "start"
    /\ LET np_total == CountParticles(upc[u])
       IN  IF NothingToWrite(np_total)
           THEN /\ uprinted' = [uprinted EXCEPT ![u] = PrintOn(u, NoParticlesNotice)]
                /\ ctl' = [ctl EXCEPT ![u] = "done"]
                /\ ubuf' = ubuf
           ELSE /\ ubuf' = [ubuf EXCEPT ![u] =
                              [NoStream EXCEPT !.np_total = np_total,
                                               !.vectors = Collect(upc[u])]]
                /\ ctl' = [ctl EXCEPT ![u] = "collected"]
                /\ uprinted' = uprinted
    /\ UNCHANGED <<pc, files, bundles, printed, calls, last, upc>>

\* lines 152-205: open the stream and fill its buffer
UOpen(u, openOk) ==
    /\ ctl[u] = "collected"
    /\ LET vtkfile == VtkFileName(last.nstep)
       IN  IF ~openOk
           THEN /\ uprinted' = [uprinted EXCEPT
                                  ![u] = PrintOn(u, CouldNotOpenNotice(vtkfile))]
                /\ ctl' = [ctl EXCEPT ![u] = "done"]
                /\ UNCHANGED <<files, ubuf>>
           ELSE /\ files' = [files EXCEPT ![vtkfile] = OpenedFile(files[vtkfile])]
                /\ ubuf' = [ubuf EXCEPT
                              ![u].buffered = VtkLines(ubuf[u].np_total,
                                                       ubuf[u].vectors)]
                /\ ctl' = [ctl EXCEPT ![u] = "opened"]
                /\ uprinted' = uprinted
    /\ UNCHANGED <<pc, bundles, printed, calls, last, upc>>

\* lines 207-210: ofs.close() writes the buffer in one write, then the notice
UClose(u) ==
    /\ ctl[u] = "opened"
    /\ ByteCount(ubuf[u].buffered) <= FileBufSize
    /\ LET vtkfile == VtkFileName(last.nstep)
       IN  /\ files' = [files EXCEPT ![vtkfile] =
                          [exists |-> TRUE,
                           lines  |-> WriteAtStart(files[vtkfile].lines,
                                                   ubuf[u].buffered)]]
           /\ ubuf' = [ubuf EXCEPT ![u].buffered = <<>>, ![u].closed = TRUE]
           /\ uprinted' = [uprinted EXCEPT
                             ![u] = PrintOn(u, WroteNotice(ubuf[u].np_total, vtkfile))]
    /\ ctl' = [ctl EXCEPT ![u] = "done"]
    /\ UNCHANGED <<pc, bundles, printed, calls, last, upc>>

(***************************************************************************)
(* Specifications.                                                         *)
(***************************************************************************)
InitCommon ==
    /\ bundles = [n \in PltNames |-> NoBundle]
    /\ printed = <<>>
    /\ calls = <<>>
    /\ last = NoCall
    /\ ctl = [u \in Units |-> "idle"]
    /\ upc = [u \in Units |-> <<>>]
    /\ ubuf = [u \in Units |-> NoStream]
    /\ uprinted = [u \in Units |-> <<>>]

InitFiles == files \in {[n \in VtkNames |-> f] : f \in {NoFile, StaleFile}}

\* the point-cloud export alone, over every container of the bounds
InitVTK ==
    /\ pc \in Populations
    /\ InitFiles
    /\ InitCommon

NextVTK == ExportVTK

SpecVTK == InitVTK /\ [][NextVTK]_vars

\* every unit calls WriteParticlesVTK for the same step
InitMPI ==
    /\ pc = <<>>
    /\ InitFiles
    /\ bundles = [n \in PltNames |-> NoBundle]
    /\ printed = <<>>
    /\ calls = <<>>
    /\ \E nstep \in Steps :
          last = [NoCall EXCEPT !.op = "collective", !.nstep = nstep]
    /\ ctl = [u \in Units |-> "start"]
    /\ \E n \in [Units -> 0..MaxTotal] : upc = [u \in Units |-> UnitPop(u, n[u])]
    /\ ubuf = [u \in Units |-> NoStream]
    /\ uprinted = [u \in Units |-> <<>>]

NextMPI ==
    \E u \in Units :
        \/ UAggregate(u)
        \/ \E openOk \in BOOLEAN : UOpen(u, openOk)
        \/ UClose(u)

SpecMPI == InitMPI /\ [][NextMPI]_vars

\* the driver calling both exports in any order
Init ==
    /\ pc \in DriverPopulations
    /\ InitFiles
    /\ InitCommon

Next == ExportVTK \/ ExportPlot

Spec == Init /\ [][Next]_vars

(***************************************************************************)
(* Properties.  The definitions below state what is claimed of the export  *)
(* calls without going through the loops of the code.                      *)
(***************************************************************************)
\* the place <<level, tile, number in tile>> of every particle of p
ParticleIndex(p) ==
    UNION {UNION {{<<l, t, i>> : i \in 1..Len(p[l][t])} : t \in 1..Len(p[l])} :
           l \in 1..Len(p)}

\* the sum over the levels and the tiles of each tile's particle count
SumOfTileCounts(p) ==
    SumSeq([l \in 1..Len(p) |-> SumSeq([t \in 1..Len(p[l]) |-> Len(p[l][t])])])

\* level ascending, then tile iteration order, then in-tile order
Before(j, k) ==
    \/ j[1] < k[1]
    \/ j[1] = k[1] /\ j[2] < k[2]
    \/ j[1] = k[1] /\ j[2] = k[2] /\ j[3] < k[3]

\* the row (1-based) of the particle at place k
Rank(p, k) == 1 + Cardinality({j \in ParticleIndex(p) : Before(j, k)})

\* the number of lines between line h and the first empty line after it
BlockLength(f, h) ==
    LET ends == {k \in (h + 1)..Len(f) : f[k] = ""}
    IN  IF ends = {} THEN 0 - 1
        ELSE (CHOOSE k \in ends : \A m \in ends : k <= m) - h - 1

\* the number of the one line of f that reads text, 0 without such a line
LineIndex(f, text) ==
    LET ks == {k \in 1..Len(f) : f[k] = text}
    IN  IF Cardinality(ks) = 1 THEN CHOOSE k \in ks : TRUE ELSE 0

\* n in five decimal digits, for 0 <= n < 100000
FiveDigits(n) ==
    Digits[((n \div 10000) % 10) + 1] \o Digits[((n \div 1000) % 10) + 1]
      \o Digits[((n \div 100) % 10) + 1] \o Digits[((n \div 10) % 10) + 1]
      \o Digits[(n % 10) + 1]

ExpectedVtkName(nstep) == "particles_" \o FiveDigits(nstep) \o ".vtk"
ExpectedPltName(nstep) == "plt" \o FiveDigits(nstep)

ScalarNames == <<"vx", "vy", "vz", "ax", "ay", "az">>
ScalarSlots == <<PIdx.vx, PIdx.vy, PIdx.vz, PIdx.ax, PIdx.ay, PIdx.az>>
ScalarHeader(f, a) == LineIndex(f, "SCALARS " \o ScalarNames[a] \o " double 1")
PointRow(part) ==
    FmtReal(part.pos[1]) \o " " \o FmtReal(part.pos[2]) \o " " \o FmtReal(part.pos[3])

VectorNames == {"xs", "ys", "zs", "vxs", "vys", "vzs", "axs", "ays", "azs"}

\* the most recent call is a WriteParticlesVTK that opened its file
VtkCallOpened == last.op = "WriteParticlesVTK" /\ last.opened
\* the most recent call is a WriteParticlesVTK of a container without particles
ZeroVtkCall == last.op = "WriteParticlesVTK" /\ SumOfTileCounts(pc) = 0
\* the most recent call is a WritePlotFile with an empty geometry sequence
EmptyPlotCall == last.op = "WritePlotFile" /\ last.num_levels = 0
WrittenFile == files[ExpectedVtkName(last.nstep)].lines

CountCalls(cs, fn) == Cardinality({j \in 1..Len(cs) : cs[j].fn = fn})

\* C1: after a WriteParticlesVTK call that opened its file, the count n of
\* the "POINTS <n> double" line is the sum over all levels and tiles of the
\* tiles' particle counts (which is the number of particles: none dropped,
\* none counted twice), the POINTS block holds exactly n coordinate lines,
\* and each of the nine collected vectors has length n.
C1_PointCountIsTileSum ==
    VtkCallOpened =>
        LET n == SumOfTileCounts(pc)
            f == WrittenFile
        IN  /\ n >= 1
            /\ n = Cardinality(ParticleIndex(pc))
            /\ Len(f) >= 5
            /\ f[5] = "POINTS " \o IntToStr(n) \o " double"
            /\ BlockLength(f, 5) = n
            /\ DOMAIN last.vectors = VectorNames
            /\ \A name \in VectorNames : Len(last.vectors[name]) = n

\* a call has written the particles of a container of two levels, with two
\* tiles on level 0
C1_Witness ==
    /\ VtkCallOpened
    /\ Len(pc) = 2 /\ Len(pc[1]) = 2
    /\ SumOfTileCounts(pc) = 2
    /\ Len(pc[2]) >= 1 /\ Len(pc[2][1]) = 1
    /\ WrittenFile[5] = "POINTS 2 double"
    /\ BlockLength(WrittenFile, 5) = 2

\* C2: in the written file, row i of the POINTS block and value i of each
\* of the SCALARS blocks vx, vy, vz, ax, ay, az (in that block order) belong
\* to the same particle, and the rows are ordered by level ascending, then
\* tile iteration order, then in-tile index.
C2_RowsAlignedAndOrdered ==
    VtkCallOpened =>
        LET f == WrittenFile
        IN  /\ \A a \in 1..6 : ScalarHeader(f, a) > 5
            /\ \A a \in 1..5 : ScalarHeader(f, a) < ScalarHeader(f, a + 1)
            /\ \A k \in ParticleIndex(pc) :
                 LET r    == Rank(pc, k)
                     part == pc[k[1]][k[2]][k[3]]
                 IN  /\ f[5 + r] = PointRow(part)
                     /\ \A a \in 1..6 :
                          f[ScalarHeader(f, a) + 1 + r]
                            = FmtReal(part.rdata[ScalarSlots[a]])

\* a written file whose first row is a particle of the second tile of level
\* 0 and whose second row is a particle of level 1
C2_Witness ==
    /\ VtkCallOpened
    /\ Len(pc) = 2 /\ Len(pc[1]) = 2 /\ Len(pc[2]) >= 1
    /\ Len(pc[1][1]) = 0 /\ Len(pc[1][2]) = 1 /\ Len(pc[2][1]) = 1
    /\ WrittenFile[6] = PointRow(pc[1][2][1])
    /\ WrittenFile[7] = PointRow(pc[2][1][1])
    /\ WrittenFile[ScalarHeader(WrittenFile, 6) + 3]
         = FmtReal(pc[2][1][1].rdata[PIdx.az])

\* C3: in a WritePlotFile call with a non-empty geometry sequence the
\* particle checkpoint (sub-directory "particle0") is written after the
\* multi-level plotfile of the same directory "plt" + step, never before it:
\* no checkpoint is written without the plotfile write preceding it in the
\* same call.
C3_CheckpointAfterPlotfile ==
    /\ (last.op = "WritePlotFile" /\ last.num_levels > 0)
          => CountCalls(calls, "Checkpoint") >= 1
    /\ \A j \in 1..Len(calls) :
          calls[j].fn = "Checkpoint" =>
             /\ calls[j].args.name = "particle0"
             /\ calls[j].dir = ExpectedPltName(last.nstep)
             /\ \E i \in 1..(j - 1) :
                   /\ calls[i].fn = "WriteMultiLevelPlotfile"
                   /\ calls[i].dir = calls[j].dir
             /\ \A i \in (j + 1)..Len(calls) :
                   calls[i].fn # "WriteMultiLevelPlotfile"

\* a call for step 7 has left a bundle holding the grid and the particles
C3_Witness ==
    /\ last.op = "WritePlotFile" /\ last.num_levels = 2 /\ last.nstep = 7
    /\ Len(calls) = 2
    /\ calls[1].fn = "WriteMultiLevelPlotfile" /\ calls[2].fn = "Checkpoint"
    /\ bundles["plt00007"].exists
    /\ Len(bundles["plt00007"].grid) = 1
    /\ Len(bundles["plt00007"].subdirs) = 1

\* C4: for a geometry sequence of N >= 1 levels the structured-grid writer
\* is handed N field arrays (one component named "dummy", all values zero),
\* N step indices all equal to the current step, and N-1 refinement ratios
\* all equal to 2 along every axis (none for N = 1).
C4_WriterArgumentShapes ==
    /\ (last.op = "WritePlotFile" /\ last.num_levels > 0)
          => CountCalls(calls, "WriteMultiLevelPlotfile") >= 1
    /\ \A j \in 1..Len(calls) :
          calls[j].fn = "WriteMultiLevelPlotfile" =>
             LET a == calls[j].args
                 N == last.num_levels
             IN  /\ N >= 1
                 /\ a.nlevels = N
                 /\ Len(a.geom) = N
                 /\ Len(a.mf) = N
                 /\ \A l \in 1..N : a.mf[l].ncomp = 1 /\ a.mf[l].val = 0
                 /\ a.varnames = <<"dummy">>
                 /\ Len(a.level_steps) = N
                 /\ \A l \in 1..N : a.level_steps[l] = last.nstep
                 /\ Len(a.ref_ratio) = N - 1
                 /\ \A l \in 1..(N - 1) : a.ref_ratio[l] = <<2, 2, 2>>
                 /\ (N = 1 => a.ref_ratio = <<>>)

\* the writer has been called for two levels, with one refinement ratio
C4_Witness ==
    /\ last.op = "WritePlotFile" /\ last.num_levels = 2
    /\ Len(calls) >= 1
    /\ calls[1].fn = "WriteMultiLevelPlotfile"
    /\ Len(calls[1].args.mf) = 2
    /\ calls[1].args.ref_ratio = << <<2, 2, 2>> >>

\* C5: when the container holds no particle, a WriteParticlesVTK call
\* prints the "no particles to write" notice and nothing else, does not
\* open its file, and leaves the directory as it was (no file created, an
\* existing file unchanged).
C5_ZeroParticlesSkip ==
    [][SumOfTileCounts(pc) = 0 =>
          /\ last'.op = "WriteParticlesVTK"
          /\ ~last'.opened
          /\ files' = files
          /\ printed' = <<"WriteParticlesVTK: no particles to write.">>]_vars

\* a call on a container of two levels whose tiles are all empty has
\* returned, with the file of that name already in the directory
C5_Witness ==
    /\ ZeroVtkCall
    /\ Len(pc) = 2 /\ Len(pc[1]) >= 1
    /\ printed = <<"WriteParticlesVTK: no particles to write.">>
    /\ files[ExpectedVtkName(last.nstep)] = StaleFile

\* C6: WritePlotFile returns early exactly when the geometry sequence is
\* empty: then it calls neither writer and creates no bundle; otherwise it
\* calls each of the two writers exactly once, whatever the container holds.
C6_EmptyGeometryOnlyEarlyExit ==
    [][last'.op = "WritePlotFile" =>
          IF last'.num_levels = 0
          THEN calls' = <<>> /\ bundles' = bundles
          ELSE /\ CountCalls(calls', "WriteMultiLevelPlotfile") = 1
               /\ CountCalls(calls', "Checkpoint") = 1
               /\ Len(calls') = 2
               /\ bundles'[ExpectedPltName(last'.nstep)].exists]_vars

\* a call with an empty geometry sequence has returned and the directory
\* holds no bundle
C6_Witness ==
    /\ EmptyPlotCall
    /\ calls = <<>>
    /\ \A n \in DOMAIN bundles : ~bundles[n].exists

\* C7 as stated: both empty-input early returns print a notice.
C7_BothShortCircuitsLogged == (EmptyPlotCall \/ ZeroVtkCall) => printed # <<>>

\* C7 amended: a WriteParticlesVTK call on a container without particles
\* prints one notice before it returns; a WritePlotFile call with no levels
\* returns without printing anything.
C7_OnlyZeroParticlesLogged ==
    /\ ZeroVtkCall => printed = <<"WriteParticlesVTK: no particles to write.">>
    /\ EmptyPlotCall => printed = <<>>

\* a WritePlotFile call with no levels has returned after another call,
\* having printed nothing
C7_Witness == EmptyPlotCall /\ printed = <<>> /\ last.after = "other"

\* C8: a WriteParticlesVTK call whose file cannot be opened prints the
\* could-not-open notice and nothing else and writes nothing; a call whose
\* open succeeds, whatever happened before it, leaves in its file exactly
\* the complete text of the container and touches no other file.
C8_OpenFailureIsLocal ==
    [][(last'.op = "WriteParticlesVTK" /\ SumOfTileCounts(pc) > 0) =>
          LET name == ExpectedVtkName(last'.nstep)
          IN  IF last'.opened
              THEN files' = [files EXCEPT ![name] =
                               [exists |-> TRUE,
                                lines  |-> VtkLines(SumOfTileCounts(pc),
                                                    Collect(pc))]]
              ELSE /\ files' = files
                   /\ printed' = <<"WriteParticlesVTK: could not open file "
                                     \o name>>]_vars

\* a call has written its file right after a call that could not open one
C8_Witness ==
    /\ VtkCallOpened
    /\ last.after = "failure"
    /\ Len(WrittenFile) > 5
    /\ WrittenFile[1] = "# vtk DataFile Version 3.0"

\* C9: a call that repeats the call before it (same operation, same step,
\* same geometry, same container, same outcome) prints the same, makes the
\* same library calls with the same arguments on the same directory, and
\* collects the same as the first call; it leaves every file as the first
\* call left it (replaced, not appended to); and, the library writers doing
\* what their contract says, it leaves every bundle as the first call left
\* it, with one plotfile tree and one particle sub-tree.
C9_RepeatedExportIsIdempotent ==
    [][(/\ last.op # "none"
        /\ last'.op = last.op
        /\ last'.nstep = last.nstep
        /\ last'.num_levels = last.num_levels
        /\ last'.opened = last.opened) =>
          /\ files' = files
          /\ bundles' = bundles
          /\ printed' = printed
          /\ calls' = calls
          /\ \A j \in 1..Len(calls') :
                calls'[j].dir = ExpectedPltName(last.nstep)
          /\ last'.vectors = last.vectors
          /\ last'.np_total = last.np_total
          /\ (last'.op = "WritePlotFile" /\ last'.num_levels > 0) =>
                LET b == bundles'[ExpectedPltName(last'.nstep)]
                IN  Len(b.grid) = 1 /\ Len(b.subdirs) = 1]_vars

\* a WritePlotFile call with a geometry has been made twice in a row, after
\* a WriteParticlesVTK call that wrote its file had been made twice in a
\* row: the file holds the text of the container once, the bundle one
\* plotfile tree and one particle sub-tree
C9_Witness ==
    /\ last.op = "WritePlotFile"
    /\ last.num_levels > 0
    /\ last.after = "repeat"
    /\ last.vtkTwice
    /\ SumOfTileCounts(pc) > 0
    /\ \E s \in Steps :
          files[ExpectedVtkName(s)] =
            [exists |-> TRUE,
             lines  |-> VtkLines(SumOfTileCounts(pc), Collect(pc))]
    /\ LET b == bundles[ExpectedPltName(last.nstep)]
       IN  b.exists /\ Len(b.grid) = 1 /\ Len(b.subdirs) = 1
    /\ Len(calls) = 2

\* C10 as stated: when every unit has finished its WriteParticlesVTK call
\* for the same step, each unit that wrote has a file of its own holding
\* exactly the text of its own particles.
C10_OneFilePerUnit ==
    (\A u \in Units : ctl[u] = "done") =>
        LET W == {u \in Units : ubuf[u].closed}
        IN  \E f \in [W -> DOMAIN files] :
              /\ \A u, w \in W : u # w => f[u] # f[w]
              /\ \A u \in W :
                   files[f[u]] =
                     [exists |-> TRUE,
                      lines  |-> VtkLines(SumOfTileCounts(upc[u]),
                                          Collect(upc[u]))]

=============================================================================
